---- MODULE Spec2Model ----
(***************************************************************************)
(* Model of homeassistant/components/lock/__init__.py: the LockEntity base *)
(* class (derived state, compiled code format, default-code option) and    *)
(* the lock / unlock / open entity services.                               *)
(*                                                                         *)
(* Representation.  A Python Optional[X] is a sequence of length <= 1:     *)
(* None is << >> and a value x is <<x>>.  A str is a sequence of one-      *)
(* character strings.  A regular expression source is a sequence of        *)
(* tokens ("\\d", "$").  A dict is a set of <<key, value>> pairs.          *)
(***************************************************************************)
EXTENDS Integers, Sequences, FiniteSets, TLC

\* ---------------------------------------------------------------- bounds
MaxCalls == 1

\* ------------------------------------------------------------- constants
OPEN == 1

STATE_JAMMED == "jammed"
STATE_LOCKED == "locked"
STATE_LOCKING == "locking"
STATE_UNLOCKED == "unlocked"
STATE_UNLOCKING == "unlocking"
SERVICE_LOCK == "lock"
SERVICE_UNLOCK == "unlock"
SERVICE_OPEN == "open"
ATTR_CODE == "code"
LOCK_DOMAIN == "lock"
CONF_DEFAULT_CODE == "default_code"

\* ------------------------------------------------------ Python Optional
None == << >>
Some(x) == <<x>>
Val(o) == o[1]

\* dict.get(k): None when the key is absent
Get(d, k) ==
  IF \E p \in d : p[1] = k THEN Some((CHOOSE p \in d : p[1] = k)[2]) ELSE None

\* ------------------------------------------------------------ input sets
Digits == {"1"}

\* access codes: empty, too short for the two-digit format, two digits, and
\* a digit followed by a letter
Codes == { << >>, <<"1">>, <<"1", "1">>, <<"1", "a">> }

\* regular expressions an integration may set as code_format
Formats == { <<"\\d">>, <<"\\d", "\\d", "$">> }

Tri == {None, Some(TRUE), Some(FALSE)}

\* service-call data after the schema: the optional code field
CallData == {{}} \cup {{<<ATTR_CODE, c>>} : c \in Codes}

\* registry_entry.options values
EntryOptions ==
  {{}, {<<LOCK_DOMAIN, {}>>}} \cup {{<<LOCK_DOMAIN, {<<CONF_DEFAULT_CODE, c>>}>>} : c \in Codes}

Services == {SERVICE_LOCK, SERVICE_UNLOCK, SERVICE_OPEN}

\* concrete entities: the features an integration advertises and the device
\* operations it overrides
EntityKinds ==
  { [features |-> 0, overrides |-> {}],
    [features |-> OPEN, overrides |-> {"lock", "unlock", "open"}] }

\* --------------------------------------------------------------- re model
\* re.Pattern.match(string): the pattern matches a prefix of the string.
RECURSIVE ReMatch(_, _)
ReMatch(p, s) ==
  IF p = << >> THEN TRUE
  ELSE IF Head(p) = "$" THEN s = << >> /\ ReMatch(Tail(p), s)
  ELSE \* "\\d"
       s # << >> /\ Head(s) \in Digits /\ ReMatch(Tail(p), Tail(s))

\* re.compile(source): a Pattern object, which remembers its source
ReCompile(src) == [pattern |-> src]

\* ------------------------------------------------------------------ state
VARIABLES
  is_jammed, is_locking, is_unlocking, is_locked, \* _attr_is_*
  code_format,          \* _attr_code_format : Optional[regex source]
  code_format_cmp,      \* __code_format_cmp : Optional[Pattern]
  default_code,         \* _lock_option_default_code : str
  supported_features,   \* _attr_supported_features
  overridden,           \* device operations the integration overrides
  registry_entry,       \* Optional[[options : dict]]
  added,                \* async_internal_added_to_hass has run
  services,             \* entity services registered by async_setup
  calls,                \* per service call: the dispatching coroutine
  jobs,                 \* per service call: the executor jobs it submitted
  last_op,              \* name of the last operation that ran
  last_call,            \* the service call the last step dispatched or ended
  state_read,           \* value returned by the last read of state
  cmp_read              \* result of the last read of code_format_cmp

signals == <<is_jammed, is_locking, is_unlocking, is_locked>>
entity == <<code_format, code_format_cmp, default_code, supported_features,
            overridden, registry_entry, added>>
dispatch == <<services, calls, jobs>>
reads == <<state_read, cmp_read>>
history == <<last_op, last_call>>
vars == <<signals, entity, dispatch, history, reads>>

CallIds == 1..MaxCalls

IdleCall == [status |-> "idle", service |-> ""]

NoCall == [call |-> 0, service |-> "", data |-> {}, result |-> ""]

\* ------------------------------------------------- LockEntity properties
\* State with the steady-state signal tested before the transient ones
StateLockedFirst(jammed, locking, unlocking, locked) ==
  IF locked = Some(TRUE) THEN Some(STATE_LOCKED)
  ELSE IF jammed = Some(TRUE) THEN Some(STATE_JAMMED)
  ELSE IF locking = Some(TRUE) THEN Some(STATE_LOCKING)
  ELSE IF unlocking = Some(TRUE) THEN Some(STATE_UNLOCKING)
  ELSE IF locked = None THEN None
  ELSE Some(STATE_UNLOCKED)

\* LockEntity.state
State(jammed, locking, unlocking, locked) ==
  IF jammed = Some(TRUE) THEN Some(STATE_JAMMED)
  ELSE IF locking = Some(TRUE) THEN Some(STATE_LOCKING)
  ELSE IF unlocking = Some(TRUE) THEN Some(STATE_UNLOCKING)
  ELSE IF locked = None THEN None
  ELSE IF Val(locked) THEN Some(STATE_LOCKED) ELSE Some(STATE_UNLOCKED)

\* code_format_cmp that compiles once and never looks at the source again
CodeFormatCmpStale(fmt, cache) ==
  IF fmt = None
    THEN [ret |-> None, cache |-> None, compiled |-> FALSE]
  ELSE IF cache = None
    THEN [ret |-> Some(ReCompile(Val(fmt))),
          cache |-> Some(ReCompile(Val(fmt))), compiled |-> TRUE]
  ELSE [ret |-> cache, cache |-> cache, compiled |-> FALSE]

\* LockEntity.code_format_cmp: the value returned, the cache afterwards and
\* whether re.compile was called
CodeFormatCmp(fmt, cache) ==
  IF fmt = None
    THEN [ret |-> None, cache |-> None, compiled |-> FALSE]
  ELSE IF cache = None \/ Val(fmt) # Val(cache).pattern
    THEN [ret |-> Some(ReCompile(Val(fmt))),
          cache |-> Some(ReCompile(Val(fmt))), compiled |-> TRUE]
  ELSE [ret |-> cache, cache |-> cache, compiled |-> FALSE]

Init ==
  /\ is_jammed = None /\ is_locking = None
  /\ is_unlocking = None /\ is_locked = None
  /\ code_format = None
  /\ code_format_cmp = None
  /\ default_code = << >>
  /\ \E kind \in EntityKinds :
       /\ supported_features = kind.features
       /\ overridden = kind.overrides
  /\ registry_entry \in {None} \cup {Some([options |-> o]) : o \in EntryOptions}
  /\ added = FALSE
  /\ services = {}
  /\ calls = [i \in CallIds |-> IdleCall]
  /\ jobs = [i \in CallIds |-> << >>]
  /\ last_op = "init"
  /\ last_call = NoCall
  /\ state_read = None
  /\ cmp_read = [ret |-> None, compiled |-> FALSE]

\* ----------------------------------------------------- signals and state
\* the integration updates one raw signal
SetSignal ==
  /\ \E v \in Tri :
       \/ is_jammed' = v /\ UNCHANGED <<is_locking, is_unlocking, is_locked>>
       \/ is_locking' = v /\ UNCHANGED <<is_jammed, is_unlocking, is_locked>>
       \/ is_unlocking' = v /\ UNCHANGED <<is_jammed, is_locking, is_locked>>
       \/ is_locked' = v /\ UNCHANGED <<is_jammed, is_locking, is_unlocking>>
  /\ last_op' = "other" /\ last_call' = NoCall
  /\ UNCHANGED <<entity, dispatch, reads>>

\* the host reads entity.state
ReadState ==
  /\ state_read' = State(is_jammed, is_locking, is_unlocking, is_locked)
  /\ last_op' = "state" /\ last_call' = NoCall
  /\ UNCHANGED <<signals, entity, dispatch, cmp_read>>

NextState == SetSignal \/ ReadState

SpecState == Init /\ [][NextState]_vars

\* The priority table of the derived state, row by row.
StateTable(jammed, locking, unlocking, locked) ==
  CASE jammed = Some(TRUE) -> Some("jammed")
    [] jammed # Some(TRUE) /\ locking = Some(TRUE) -> Some("locking")
    [] jammed # Some(TRUE) /\ locking # Some(TRUE) /\ unlocking = Some(TRUE)
         -> Some("unlocking")
    [] jammed # Some(TRUE) /\ locking # Some(TRUE) /\ unlocking # Some(TRUE)
         /\ locked = None -> None
    [] jammed # Some(TRUE) /\ locking # Some(TRUE) /\ unlocking # Some(TRUE)
         /\ locked = Some(TRUE) -> Some("locked")
    [] jammed # Some(TRUE) /\ locking # Some(TRUE) /\ unlocking # Some(TRUE)
         /\ locked = Some(FALSE) -> Some("unlocked")

\* C1: every read of the derived state returns the first matching row of the
\* priority table (jammed, locking, unlocking, unknown, locked / unlocked)
\* for the current values of the four raw signals.
C1_StateMatchesTable ==
  last_op = "state" =>
    state_read = StateTable(is_jammed, is_locking, is_unlocking, is_locked)

\* a read made while the lock reports both jammed and locked
C1_Witness ==
  /\ last_op = "state"
  /\ is_jammed = Some(TRUE) /\ is_locked = Some(TRUE)
  /\ state_read = Some("jammed")

\* ----------------------------------------------------------- async_setup
\* async_setup with the open service registered like lock and unlock
AsyncSetupOpenUngated ==
  { [service |-> SERVICE_UNLOCK, func |-> "_async_unlock", required |-> {}],
    [service |-> SERVICE_LOCK, func |-> "_async_lock", required |-> {}],
    [service |-> SERVICE_OPEN, func |-> "_async_open", required |-> {}] }

\* async_setup: the three calls of async_register_entity_service
AsyncSetup ==
  { [service |-> SERVICE_UNLOCK, func |-> "_async_unlock", required |-> {}],
    [service |-> SERVICE_LOCK, func |-> "_async_lock", required |-> {}],
    [service |-> SERVICE_OPEN, func |-> "_async_open", required |-> {OPEN}] }

\* async_setup
Setup ==
  /\ services = {}
  /\ services' = AsyncSetup
  /\ last_op' = "other" /\ last_call' = NoCall
  /\ UNCHANGED <<signals, entity, calls, jobs, reads>>

\* ------------------------------------------------ code format and options
\* the integration sets _attr_code_format
SetCodeFormat ==
  /\ \E f \in {None} \cup {Some(p) : p \in Formats} :
       /\ f # code_format
       /\ code_format' = f
  /\ last_op' = "other" /\ last_call' = NoCall
  /\ UNCHANGED <<signals, code_format_cmp, default_code, supported_features,
                 overridden, registry_entry, added, dispatch, reads>>

\* a caller reads entity.code_format_cmp
ReadCodeFormatCmp ==
  LET r == CodeFormatCmp(code_format, code_format_cmp) IN
  /\ code_format_cmp' = r.cache
  /\ cmp_read' = [ret |-> r.ret, compiled |-> r.compiled]
  /\ last_op' = "code_format_cmp" /\ last_call' = NoCall
  /\ UNCHANGED <<signals, code_format, default_code, supported_features,
                 overridden, registry_entry, added, dispatch, state_read>>

\* Python truthiness of an Optional dict / Optional str
TruthyDict(o) == o # None /\ Val(o) # {}
TruthyStr(o) == o # None /\ Val(o) # << >>

\* LockEntity._async_read_entity_options: the default code and the matcher
\* cache it leaves behind
ReadEntityOptions(entry, fmt, cache, dflt) ==
  LET lock_options == Get(entry.options, LOCK_DOMAIN)
      candidate == IF TruthyDict(lock_options)
                     THEN Get(Val(lock_options), CONF_DEFAULT_CODE) ELSE None
      c1 == CodeFormatCmp(fmt, cache)
      c2 == CodeFormatCmp(fmt, c1.cache)
  IN IF TruthyDict(lock_options) /\ TruthyStr(candidate)
       THEN IF c1.ret # None
              THEN [default_code |->
                      IF ReMatch(Val(c2.ret).pattern, Val(candidate))
                        THEN Val(candidate) ELSE dflt,
                    cache |-> c2.cache]
              ELSE [default_code |-> dflt, cache |-> c1.cache]
       ELSE [default_code |-> << >>, cache |-> cache]

\* LockEntity.async_internal_added_to_hass
AddedToHass ==
  /\ services # {} /\ ~added
  /\ added' = TRUE
  /\ IF registry_entry = None
       THEN UNCHANGED <<default_code, code_format_cmp>>
       ELSE LET r == ReadEntityOptions(Val(registry_entry), code_format,
                                       code_format_cmp, default_code)
            IN /\ default_code' = r.default_code
               /\ code_format_cmp' = r.cache
  /\ last_op' = IF registry_entry = None THEN "other" ELSE "reload"
  /\ last_call' = NoCall
  /\ UNCHANGED <<signals, code_format, supported_features, overridden,
                 registry_entry, dispatch, reads>>

\* LockEntity.async_registry_entry_updated, run by the host after it has
\* replaced the entity's registry entry
RegistryEntryUpdated ==
  /\ added /\ registry_entry # None
  /\ \E o \in EntryOptions :
       LET entry == [options |-> o]
           r == ReadEntityOptions(entry, code_format, code_format_cmp,
                                  default_code)
       IN /\ registry_entry' = Some(entry)
          /\ default_code' = r.default_code
          /\ code_format_cmp' = r.cache
  /\ last_op' = "reload" /\ last_call' = NoCall
  /\ UNCHANGED <<signals, code_format, supported_features, overridden, added,
                 dispatch, reads>>

NextOptions ==
  \/ Setup
  \/ SetCodeFormat
  \/ ReadCodeFormatCmp
  \/ AddedToHass
  \/ RegistryEntryUpdated

SpecOptions == Init /\ [][NextOptions]_vars

\* an options reload has just completed
Reloaded == last_op = "reload"

\* the default-code candidate of the registry options, None when the lock
\* options or the candidate are absent
Candidate ==
  LET lock_options == Get(Val(registry_entry).options, LOCK_DOMAIN) IN
  IF lock_options = None THEN None
  ELSE Get(Val(lock_options), CONF_DEFAULT_CODE)

\* C3: after every options reload, whatever default_code held before, the
\* default code equals the candidate when the candidate matches the current
\* code format (or no code format is set), and is empty when the candidate
\* does not match or when the options or the candidate are absent.
C3_ReloadSetsOrClears ==
  Reloaded =>
    IF Candidate = None THEN default_code = << >>
    ELSE IF code_format = None \/ ReMatch(Val(code_format), Val(Candidate))
      THEN default_code = Val(Candidate)
    ELSE default_code = << >>

\* C4: right after an options reload, a set code format implies that the
\* default code is empty or matches that format.
C4_DefaultMatchesFormat ==
  (Reloaded /\ code_format # None) =>
    (default_code = << >> \/ ReMatch(Val(code_format), default_code))

\* C9: a read of code_format_cmp returns no matcher and clears the cache
\* when code_format is None, otherwise a matcher whose pattern is the current
\* code_format; re.compile runs on a read exactly when the cache is empty or
\* holds another pattern, and a read that directly follows a read returns
\* the cached matcher without compiling.
C9_CachedMatcher ==
  [][last_op' = "code_format_cmp" =>
       /\ code_format = None =>
            (cmp_read'.ret = None /\ code_format_cmp' = None)
       /\ code_format # None =>
            /\ cmp_read'.ret # None
            /\ Val(cmp_read'.ret).pattern = Val(code_format)
            /\ code_format_cmp' = cmp_read'.ret
       /\ cmp_read'.compiled <=>
            /\ code_format # None
            /\ \/ code_format_cmp = None
               \/ Val(code_format_cmp).pattern # Val(code_format)
       /\ last_op = "code_format_cmp" =>
            /\ ~cmp_read'.compiled
            /\ cmp_read'.ret = cmp_read.ret
            /\ code_format_cmp' = code_format_cmp]_vars

\* a read served from the cache after the code format had been changed
C9_Witness ==
  /\ last_op = "code_format_cmp"
  /\ ~cmp_read.compiled
  /\ cmp_read.ret = Some(ReCompile(<<"\\d", "\\d", "$">>))

\* ------------------------------------------------------- entity services
\* features & feature, for a single-bit feature
HasFeature(features, feature) == (features \div feature) % 2 = 1

\* the registration layer calls a handler only on an entity that supports
\* every required feature
EntitySupports(features, required) ==
  \A f \in required : HasFeature(features, f)

\* dict without a key (dict.pop) and with a key set (d[k] = v)
Without(d, k) == {p \in d : p[1] # k}
With(d, k, v) == Without(d, k) \cup {<<k, v>>}

\* _add_default_code without the format check
AddDefaultCodeUnchecked(data, dflt, fmt, cache) ==
  LET popped == Get(data, ATTR_CODE)
      supplied == IF popped = None THEN << >> ELSE Val(popped)
      code == IF supplied = << >> THEN dflt ELSE supplied
      rest == Without(data, ATTR_CODE)
  IN [raised |-> FALSE, cache |-> cache,
      data |-> IF code # << >> THEN With(rest, ATTR_CODE, code) ELSE rest]

\* _add_default_code that never substitutes the default code
AddDefaultCodeNoDefault(data, dflt, fmt, cache) ==
  LET popped == Get(data, ATTR_CODE)
      code == IF popped = None THEN << >> ELSE Val(popped)
      rest == Without(data, ATTR_CODE)
      c1 == CodeFormatCmp(fmt, cache)
      c2 == CodeFormatCmp(fmt, c1.cache)
  IN IF c1.ret # None /\ ~ReMatch(Val(c2.ret).pattern, code)
       THEN [raised |-> TRUE, cache |-> c2.cache, data |-> rest]
       ELSE [raised |-> FALSE, cache |-> c1.cache,
             data |-> IF code # << >> THEN With(rest, ATTR_CODE, code) ELSE rest]

\* _add_default_code that always writes the code field
AddDefaultCodeAlwaysAttach(data, dflt, fmt, cache) ==
  LET popped == Get(data, ATTR_CODE)
      supplied == IF popped = None THEN << >> ELSE Val(popped)
      code == IF supplied = << >> THEN dflt ELSE supplied
      rest == Without(data, ATTR_CODE)
      c1 == CodeFormatCmp(fmt, cache)
      c2 == CodeFormatCmp(fmt, c1.cache)
  IN IF c1.ret # None /\ ~ReMatch(Val(c2.ret).pattern, code)
       THEN [raised |-> TRUE, cache |-> c2.cache, data |-> rest]
       ELSE [raised |-> FALSE, cache |-> c1.cache,
             data |-> With(rest, ATTR_CODE, code)]

\* _add_default_code: whether it raises ValueError, the keyword arguments it
\* returns and the matcher cache it leaves behind
AddDefaultCode(data, dflt, fmt, cache) ==
  LET popped == Get(data, ATTR_CODE)
      supplied == IF popped = None THEN << >> ELSE Val(popped)
      code == IF supplied = << >> THEN dflt ELSE supplied
      rest == Without(data, ATTR_CODE)
      c1 == CodeFormatCmp(fmt, cache)
      c2 == CodeFormatCmp(fmt, c1.cache)
  IN IF c1.ret # None /\ ~ReMatch(Val(c2.ret).pattern, code)
       THEN [raised |-> TRUE, cache |-> c2.cache, data |-> rest]
       ELSE [raised |-> FALSE, cache |-> c1.cache,
             data |-> IF code # << >> THEN With(rest, ATTR_CODE, code) ELSE rest]

\* LockEntity.async_lock / async_unlock / async_open: the blocking call each
\* hands to hass.async_add_executor_job
AsyncLock(kwargs) == [fn |-> "lock", kwargs |-> kwargs]
AsyncUnlock(kwargs) == [fn |-> "unlock", kwargs |-> kwargs]
AsyncOpen(kwargs) == [fn |-> "open", kwargs |-> kwargs]

\* _async_lock / _async_unlock / _async_open
Handler(func, kwargs) ==
  CASE func = "_async_lock" -> AsyncLock(kwargs)
    [] func = "_async_unlock" -> AsyncUnlock(kwargs)
    [] func = "_async_open" -> AsyncOpen(kwargs)

\* LockEntity.lock / unlock / open run in a worker: the base methods raise
\* NotImplementedError, an override succeeds or raises its own error
DeviceOp(fn, overrides) ==
  IF fn \in overrides THEN {"ok", "DeviceError"} ELSE {"NotImplementedError"}

\* an await that drops the failure of the executor job
AwaitJobSwallow(job) == "done"

\* the await of the executor job: returns, or raises what the job raised
AwaitJob(job) == IF job.state = "ok" THEN "done" ELSE job.state

\* a lock / unlock / open service call addressed to the entity: the handler
\* runs up to its await in one step of the event loop
ServiceCall ==
  /\ added
  /\ \E i \in CallIds, reg \in services, data \in CallData :
       /\ calls[i].status = "idle"
       /\ IF ~EntitySupports(supported_features, reg.required)
            THEN /\ last_call' = [call |-> i, service |-> reg.service,
                                  data |-> data, result |-> "skipped"]
                 /\ UNCHANGED <<calls, jobs, code_format_cmp>>
            ELSE LET r == AddDefaultCode(data, default_code, code_format,
                                         code_format_cmp)
                     h == Handler(reg.func, r.data)
                 IN /\ code_format_cmp' = r.cache
                    /\ IF r.raised
                         THEN /\ last_call' =
                                   [call |-> i, service |-> reg.service,
                                    data |-> data, result |-> "ValueError"]
                              /\ UNCHANGED <<calls, jobs>>
                         ELSE /\ last_call' =
                                   [call |-> i, service |-> reg.service,
                                    data |-> data, result |-> "pending"]
                              /\ calls' = [calls EXCEPT ![i] =
                                    [status |-> "awaiting",
                                     service |-> reg.service]]
                              /\ jobs' = [jobs EXCEPT ![i] = Append(@,
                                    [fn |-> h.fn, kwargs |-> h.kwargs,
                                     state |-> "queued"])]
  /\ last_op' = "other"
  /\ UNCHANGED <<signals, code_format, default_code, supported_features,
                 overridden, registry_entry, added, services, reads>>

\* a worker of the executor runs a queued job
WorkerRun ==
  /\ \E i \in CallIds :
     \E k \in DOMAIN jobs[i] :
       /\ jobs[i][k].state = "queued"
       /\ \E outcome \in DeviceOp(jobs[i][k].fn, overridden) :
            jobs' = [jobs EXCEPT ![i][k].state = outcome]
  /\ last_op' = "other" /\ last_call' = NoCall
  /\ UNCHANGED <<signals, entity, services, calls, reads>>

\* the dispatching coroutine resumes when the job it awaits has finished, and
\* the service call ends with the job's result
Resume ==
  /\ \E i \in CallIds :
       /\ calls[i].status = "awaiting"
       /\ jobs[i][1].state # "queued"
       /\ last_call' = [call |-> i, service |-> calls[i].service, data |-> {},
                        result |-> AwaitJob(jobs[i][1])]
       /\ calls' = [calls EXCEPT ![i] = IdleCall]
       /\ jobs' = [jobs EXCEPT ![i] = << >>]
  /\ last_op' = "other"
  /\ UNCHANGED <<signals, entity, services, reads>>

Next ==
  \/ Setup
  \/ ServiceCall
  \/ WorkerRun
  \/ Resume
  \/ SetCodeFormat
  \/ AddedToHass
  \/ RegistryEntryUpdated

Spec == Init /\ [][Next]_vars

\* -------------------------------------------------- service-call claims
\* the code a command resolves to: the supplied code, or the default code
\* when none (or an empty one) is supplied
Resolved(data, dflt) ==
  LET supplied == Get(data, ATTR_CODE) IN
  IF supplied = None \/ Val(supplied) = << >> THEN dflt ELSE Val(supplied)

\* the last step ran a service handler (it was not skipped by the
\* registration layer)
Dispatched == last_call.result \in {"ValueError", "pending"}

\* the job submitted by the call dispatched in the last step
NewJob == jobs[last_call.call][Len(jobs[last_call.call])]

\* C2: a lock, unlock or open command whose resolved code does not match the
\* entity's code format fails with the validation error, submits no device
\* operation, and leaves the raw signals, code_format and the default code
\* unchanged.
C2_RejectedBeforeDevice ==
  [][(/\ last_call'.result \in {"ValueError", "pending"}
      /\ code_format # None
      /\ ~ReMatch(Val(code_format), Resolved(last_call'.data, default_code)))
     => /\ last_call'.result = "ValueError"
        /\ jobs' = jobs
        /\ calls' = calls
        /\ signals' = signals
        /\ code_format' = code_format
        /\ default_code' = default_code]_vars

\* an open command rejected for the code substituted from the default code
C2_Witness ==
  /\ last_call.result = "ValueError"
  /\ last_call.service = SERVICE_OPEN
  /\ last_call.data = {}
  /\ default_code # << >>

\* C5: a command dispatched with an empty or omitted code on an entity with
\* a non-empty default code hands the device operation a code field equal to
\* the default code; a non-empty supplied code is handed over as supplied.
C5_DefaultCodeSubstituted ==
  last_call.result = "pending" =>
    LET supplied == Get(last_call.data, ATTR_CODE)
        empty == supplied = None \/ Val(supplied) = << >>
    IN /\ (empty /\ default_code # << >>) =>
            Get(NewJob.kwargs, ATTR_CODE) = Some(default_code)
       /\ ~empty => Get(NewJob.kwargs, ATTR_CODE) = supplied

\* a command with an explicitly empty code that went out with the default
C5_Witness ==
  /\ last_call.result = "pending"
  /\ last_call.data = {<<ATTR_CODE, << >>>>}
  /\ default_code = <<"1", "a">>
  /\ NewJob.kwargs = {<<ATTR_CODE, <<"1", "a">>>>}

\* C6: open is registered with OPEN as its required feature, lock and unlock
\* with none, and an open call on an entity without OPEN is skipped: no open
\* job is ever submitted for such an entity.
C6_OpenNeedsFeature ==
  /\ \A reg \in services :
       reg.required = IF reg.service = SERVICE_OPEN THEN {OPEN} ELSE {}
  /\ ~HasFeature(supported_features, OPEN) =>
       /\ \A i \in CallIds : \A k \in DOMAIN jobs[i] : jobs[i][k].fn # "open"
       /\ \A i \in CallIds : calls[i].service # SERVICE_OPEN
       /\ last_call.service = SERVICE_OPEN => last_call.result = "skipped"

\* an open call skipped on an entity that does not advertise OPEN
C6_Witness ==
  /\ last_call.service = SERVICE_OPEN
  /\ last_call.result = "skipped"
  /\ supported_features = 0

\* C7: the payload of a command that passes validation has the code field
\* exactly when the resolved code is non-empty, never with an empty value;
\* and with code_format None no command is rejected.
C7_CodeFieldIffNonEmpty ==
  /\ last_call.result = "pending" =>
       /\ Get(NewJob.kwargs, ATTR_CODE) # Some(<< >>)
       /\ Get(NewJob.kwargs, ATTR_CODE) # None
            <=> Resolved(last_call.data, default_code) # << >>
       /\ Get(NewJob.kwargs, ATTR_CODE) # None =>
            Val(Get(NewJob.kwargs, ATTR_CODE))
              = Resolved(last_call.data, default_code)
  /\ (Dispatched /\ code_format = None) => last_call.result = "pending"

\* a command with an empty code dispatched without the code field
C7_Witness ==
  /\ last_call.result = "pending"
  /\ last_call.data = {<<ATTR_CODE, << >>>>}
  /\ NewJob.kwargs = {}

\* C8: a command that passes validation has exactly one executor job, for
\* the device operation of its service; its dispatch ends only once that job
\* has run, with success when the job succeeded and otherwise with the job's
\* own failure.
C8_AwaitsWorker ==
  [][\A i \in CallIds :
       /\ calls'[i].status = "awaiting" =>
            /\ Len(jobs'[i]) = 1
            /\ jobs'[i][1].fn = calls'[i].service
       /\ calls'[i].status = "idle" => jobs'[i] = << >>
       /\ (calls[i].status = "awaiting" /\ calls'[i].status = "idle") =>
            /\ jobs[i][1].state # "queued"
            /\ last_call'.call = i
            /\ last_call'.service = calls[i].service
            /\ last_call'.result =
                 IF jobs[i][1].state = "ok" THEN "done" ELSE jobs[i][1].state]_vars

\* a lock command that ended with the base method's NotImplementedError
C8_Witness ==
  /\ last_call.service = SERVICE_LOCK
  /\ last_call.result = "NotImplementedError"

\* the code field of a payload, empty when absent
CodeOf(kwargs) ==
  IF Get(kwargs, ATTR_CODE) = None THEN << >> ELSE Val(Get(kwargs, ATTR_CODE))

\* C10: the payload of a job is fixed when the command is dispatched: no
\* later step (an options reload, a code_format change, the worker) changes
\* it while the call is pending, and the code it carries matched the
\* code_format in effect at dispatch (any code when none was set).
C10_PayloadFixedAtDispatch ==
  [][\A i \in CallIds :
       /\ (calls[i].status = "awaiting" /\ calls'[i].status = "awaiting") =>
            /\ jobs'[i][1].kwargs = jobs[i][1].kwargs
            /\ jobs'[i][1].fn = jobs[i][1].fn
       /\ (calls[i].status = "idle" /\ calls'[i].status = "awaiting") =>
            \/ code_format = None
            \/ ReMatch(Val(code_format), CodeOf(jobs'[i][1].kwargs))]_vars

\* a device operation has run with a code that is not the current default
\* code and does not match the current code format
C10_Witness ==
  \E i \in CallIds :
    /\ calls[i].status = "awaiting"
    /\ jobs[i][1].state = "ok"
    /\ CodeOf(jobs[i][1].kwargs) # default_code
    /\ default_code # << >>
    /\ code_format # None
    /\ ~ReMatch(Val(code_format), CodeOf(jobs[i][1].kwargs))

====
